---- MODULE Spec2Model ----
(***************************************************************************)
(* Model of keanus_candy/models/payment.py: the PaymentMethod base class   *)
(* and its two variants, CreditCard and PayPal.                            *)
(*                                                                         *)
(* One behaviour is the lifetime of one instance: Init constructs an       *)
(* instance of one of the three classes, and every later step is a call of *)
(* one of its methods or a tick of the wall clock.  Instances share no     *)
(* state, so nothing is lost by following them one at a time.              *)
(*                                                                         *)
(* Amounts and the balance are Python floats.  A float is modelled as a    *)
(* record: a finite value that is a whole number (exactly representable,   *)
(* so that its arithmetic is exact), NaN, +inf or -inf, with the IEEE-754  *)
(* comparison and subtraction rules Python applies to them.  Fractional    *)
(* amounts, whose subtraction rounds, are outside the model.               *)
(*                                                                         *)
(* A card number is a sequence of characters; a character is a one-element *)
(* string, and the two non-ASCII characters are written by name.           *)
(* holder_name, expiration_date and email are only ever printed and are    *)
(* not modelled, nor is the text written by print.                         *)
(***************************************************************************)
EXTENDS Integers, Sequences, FiniteSets

(* ------------------------------ bounds --------------------------------- *)

\* calls of process_payment followed on a PayPal or base instance
MaxCalls == 3
\* calls of process_payment followed on a CreditCard instance
MaxCardCalls == 2
\* last second the wall clock reaches
MaxTime == 2
\* spacing of the finite amounts tried
AmountStep == 250
\* card number lengths tried by the validation specification
MinCardLen == 14
MaxCardLen == 17

(* ------------------------- program constants --------------------------- *)

\* PayPal.__init__: self.balance = 500.00
InitialBalance == 500
\* PayPal.process_payment: time.sleep(1)
SleepSeconds == 1
\* CreditCard.validate_card: len(self.card_number) in (15, 16)
CardLengths == {15, 16}
\* CreditCard.process_payment: random.choice([True, True, True, False])
Choices == <<TRUE, TRUE, TRUE, FALSE>>

(* ------------------------------ floats ---------------------------------- *)

Fin(n) == [k |-> "fin", v |-> n]
NaN == [k |-> "nan", v |-> 0]
PosInf == [k |-> "inf", v |-> 1]
NegInf == [k |-> "inf", v |-> -1]
\* the value of an attribute the instance does not have
NoFloat == [k |-> "none", v |-> 0]

IsNaN(a) == a.k = "nan"

\* a < b on floats: false as soon as one side is NaN
FLt(a, b) ==
    /\ ~IsNaN(a)
    /\ ~IsNaN(b)
    /\ IF a.k = "fin" /\ b.k = "fin" THEN a.v < b.v
       ELSE IF a.k = "inf" /\ b.k = "inf" THEN a.v < b.v
       ELSE IF a.k = "inf" THEN a.v < 0
       ELSE b.v > 0

\* a == b on floats: NaN equals nothing, itself included
FEq(a, b) == ~IsNaN(a) /\ ~IsNaN(b) /\ a = b

\* a <= b on floats
FLe(a, b) == FLt(a, b) \/ FEq(a, b)

\* a > b on floats
FGt(a, b) == FLt(b, a)

\* a >= b on floats
FGe(a, b) == FLe(b, a)

\* a - b on floats
FSub(a, b) ==
    IF IsNaN(a) \/ IsNaN(b) THEN NaN
    ELSE IF a.k = "fin" /\ b.k = "fin" THEN Fin(a.v - b.v)
    ELSE IF a.k = "inf" /\ b.k = "inf" THEN (IF a.v = b.v THEN NaN ELSE a)
    ELSE IF a.k = "inf" THEN a
    ELSE [k |-> "inf", v |-> 0 - b.v]

\* a + b on floats
FAdd(a, b) ==
    IF IsNaN(a) \/ IsNaN(b) THEN NaN
    ELSE IF a.k = "fin" /\ b.k = "fin" THEN Fin(a.v + b.v)
    ELSE IF a.k = "inf" /\ b.k = "inf" THEN (IF a.v = b.v THEN a ELSE NaN)
    ELSE IF a.k = "inf" THEN a
    ELSE b

\* the amounts a caller passes
Amounts ==
    {Fin(0 - AmountStep), Fin(0), Fin(AmountStep), Fin(InitialBalance),
     Fin(InitialBalance + AmountStep), NaN, PosInf, NegInf}

(* --------------------------- card numbers ------------------------------ *)

AsciiDigits == {"0", "1", "2", "3", "4", "5", "6", "7", "8", "9"}
\* characters of Unicode category Nd outside 0-9 (ARABIC-INDIC DIGIT THREE)
OtherDecimalDigits == {"ARABIC-INDIC DIGIT THREE"}
\* characters with Numeric_Type=Digit that are not decimal (SUPERSCRIPT TWO)
NonDecimalDigits == {"SUPERSCRIPT TWO"}
\* characters that are no digit of any kind
NonDigits == {"a", " ", "-"}

\* the characters card numbers are built from
Alphabet == {"1"} \cup OtherDecimalDigits \cup NonDecimalDigits \cup NonDigits

\* n copies of fill, with odd at position pos
CardOf(n, fill, odd, pos) == [i \in 1..n |-> IF i = pos THEN odd ELSE fill]

\* the card numbers the validation specification tries
CardNumbers ==
    {CardOf(n, fill, odd, pos) :
        n \in MinCardLen..MaxCardLen, fill \in Alphabet, odd \in Alphabet,
        pos \in {1, MinCardLen}}

\* the 12-digit number 411111111111
ShortCard == <<"4", "1", "1", "1", "1", "1", "1", "1", "1", "1", "1", "1">>
\* sixteen times SUPERSCRIPT TWO
SuperscriptCard ==
    <<"SUPERSCRIPT TWO", "SUPERSCRIPT TWO", "SUPERSCRIPT TWO", "SUPERSCRIPT TWO",
      "SUPERSCRIPT TWO", "SUPERSCRIPT TWO", "SUPERSCRIPT TWO", "SUPERSCRIPT TWO",
      "SUPERSCRIPT TWO", "SUPERSCRIPT TWO", "SUPERSCRIPT TWO", "SUPERSCRIPT TWO",
      "SUPERSCRIPT TWO", "SUPERSCRIPT TWO", "SUPERSCRIPT TWO", "SUPERSCRIPT TWO">>
\* 4111111111111111 (16 digits) and 411111111111111 (15 digits)
Card16 == <<"4", "1", "1", "1", "1", "1", "1", "1", "1", "1", "1", "1", "1", "1", "1", "1">>
Card15 == <<"4", "1", "1", "1", "1", "1", "1", "1", "1", "1", "1", "1", "1", "1", "1">>
\* 16 characters, one of them a dash
DashCard == <<"4", "1", "1", "1", "-", "1", "1", "1", "1", "1", "1", "1", "1", "1", "1", "1">>

\* the card numbers payments are made with
PaymentCards == {ShortCard, SuperscriptCard, Card16, Card15, DashCard}

(* ------------------------------ state ---------------------------------- *)

VARIABLES
    \* the class of the instance: "PaymentMethod", "CreditCard" or "PayPal"
    kind,
    \* self.method_name
    method_name,
    \* self.transaction_history
    transaction_history,
    \* self.card_number (<<>> when the instance has none)
    card_number,
    \* self.balance (NoFloat when the instance has none)
    balance,
    \* the wall clock, in seconds, as time.strftime reads it
    clock,
    \* the number of process_payment calls made so far
    calls,
    \* the last call made: its method, argument and result, and the instance's
    \* history and balance as they were when it was made
    call

vars == <<kind, method_name, transaction_history, card_number, balance, clock, calls, call>>

NoCall ==
    [op |-> "none", amount |-> NoFloat, result |-> "none", draw |-> 0,
     pre_history |-> <<>>, pre_balance |-> NoFloat]

(* ----------------------------- the methods ----------------------------- *)

\* log_transaction putting the new entry first (insert(0, entry) for append)
log_transaction_prepend(history, method, amount, status, now) ==
    <<[method |-> method, amount |-> amount, status |-> status, timestamp |-> now]>>
        \o history

\* PaymentMethod.log_transaction: the history with the new entry appended
log_transaction(history, method, amount, status, now) ==
    Append(history,
           [method |-> method, amount |-> amount, status |-> status, timestamp |-> now])

\* str.isdigit: non-empty, and every character has Numeric_Type Digit or Decimal
isdigit(s) ==
    /\ Len(s) > 0
    /\ \A i \in 1..Len(s) :
          s[i] \in AsciiDigits \cup OtherDecimalDigits \cup NonDecimalDigits

\* validate_card with an upper limit on the length only (<= 16 for in (15, 16))
validate_card_atMost(number) == Len(number) <= 16 /\ isdigit(number)

\* CreditCard.validate_card
validate_card(number) == Len(number) \in CardLengths /\ isdigit(number)

\* the opening test written `amount < 0`
AmountNotPositive_strict(amount) == FLt(amount, Fin(0))

\* the test `amount <= 0` that opens both process_payment methods
AmountNotPositive(amount) == FLe(amount, Fin(0))

\* the balance test written `amount >= self.balance`
ExceedsBalance_orEqual(amount, bal) == FGe(amount, bal)

\* the test `amount > self.balance` of PayPal.process_payment
ExceedsBalance(amount, bal) == FGt(amount, bal)

\* the two statuses the wrong way round
StatusOf_swapped(success) == IF success THEN "Declined" ELSE "Approved"

\* "Approved" if success else "Declined"
StatusOf(success) == IF success THEN "Approved" ELSE "Declined"

\* a Python bool as the caller sees it
Bool(b) == IF b THEN "True" ELSE "False"

\* a base process_payment that logs "Failed" and returns False instead of raising
PaymentMethod_process_payment_failed(amount) ==
    [result |-> "False", log |-> <<"Failed">>, draw |-> 0]

\* PaymentMethod.process_payment: raises before anything is logged
PaymentMethod_process_payment(amount) ==
    [result |-> "NotImplementedError", log |-> <<>>, draw |-> 0]

\* CreditCard.process_payment, i being the position random.choice picks
CreditCard_process_payment(amount, number, i) ==
    IF AmountNotPositive(amount)
    THEN [result |-> "False", log |-> <<"Failed">>, draw |-> 0]
    ELSE IF ~validate_card(number)
    THEN [result |-> "False", log |-> <<"Declined">>, draw |-> 0]
    ELSE [result |-> Bool(Choices[i]), log |-> <<StatusOf(Choices[i])>>, draw |-> i]

\* PayPal.process_payment with the balance decremented before it is compared
PayPal_process_payment_deductFirst(amount, bal) ==
    IF AmountNotPositive(amount)
    THEN [result |-> "False", log |-> <<"Failed">>, balance |-> bal, slept |-> 0]
    ELSE IF ExceedsBalance(amount, bal)
    THEN [result |-> "False", log |-> <<"Insufficient Funds">>,
          balance |-> FSub(bal, amount), slept |-> 0]
    ELSE [result |-> "True", log |-> <<"Completed">>, balance |-> FSub(bal, amount),
          slept |-> SleepSeconds]

\* PayPal.process_payment: the result, the status logged, the balance left and
\* the seconds slept before the entry is logged
PayPal_process_payment(amount, bal) ==
    IF AmountNotPositive(amount)
    THEN [result |-> "False", log |-> <<"Failed">>, balance |-> bal, slept |-> 0]
    ELSE IF ExceedsBalance(amount, bal)
    THEN [result |-> "False", log |-> <<"Insufficient Funds">>, balance |-> bal, slept |-> 0]
    ELSE [result |-> "True", log |-> <<"Completed">>, balance |-> FSub(bal, amount),
          slept |-> SleepSeconds]

\* the history after a call that logged the statuses of log at time now
Logged(history, method, amount, log, now) ==
    IF log = <<>> THEN history
    ELSE log_transaction(history, method, amount, log[1], now)

(* --------------------------- construction ------------------------------ *)

\* PaymentMethod(method_name), called directly
InitPaymentMethod ==
    /\ kind = "PaymentMethod"
    /\ method_name = "Base"
    /\ card_number = <<>>
    /\ balance = NoFloat

\* CreditCard(card_number, holder_name)
InitCreditCard ==
    /\ kind = "CreditCard"
    /\ method_name = "Credit Card"
    /\ card_number \in PaymentCards
    /\ balance = NoFloat

\* PayPal(email)
InitPayPal ==
    /\ kind = "PayPal"
    /\ method_name = "PayPal"
    /\ card_number = <<>>
    /\ balance = Fin(InitialBalance)

Init ==
    /\ InitPaymentMethod \/ InitCreditCard \/ InitPayPal
    /\ transaction_history = <<>>
    /\ clock = 0
    /\ calls = 0
    /\ call = NoCall

\* CreditCard(card_number, holder_name) over the wide set of card numbers
InitValidate ==
    /\ kind = "CreditCard"
    /\ method_name = "Credit Card"
    /\ card_number \in CardNumbers \cup PaymentCards
    /\ balance = NoFloat
    /\ transaction_history = <<>>
    /\ clock = 0
    /\ calls = 0
    /\ call = NoCall

(* ------------------------------ actions -------------------------------- *)

\* a second passes on the wall clock
Tick ==
    /\ clock < MaxTime
    /\ clock' = clock + 1
    /\ UNCHANGED <<kind, method_name, transaction_history, card_number, balance, calls, call>>

\* process_payment(amount) on a base PaymentMethod instance
CallPaymentMethod ==
    /\ kind = "PaymentMethod"
    /\ calls < MaxCalls
    /\ \E amount \in Amounts :
          LET out == PaymentMethod_process_payment(amount) IN
          /\ transaction_history' =
                Logged(transaction_history, method_name, amount, out.log, clock)
          /\ call' = [op |-> "process_payment", amount |-> amount, result |-> out.result,
                      draw |-> out.draw, pre_history |-> transaction_history,
                      pre_balance |-> balance]
    /\ calls' = calls + 1
    /\ UNCHANGED <<kind, method_name, card_number, balance, clock>>

\* process_payment(amount) on a CreditCard instance
CallCreditCard ==
    /\ kind = "CreditCard"
    /\ calls < MaxCardCalls
    /\ \E amount \in Amounts, i \in DOMAIN Choices :
          LET out == CreditCard_process_payment(amount, card_number, i) IN
          /\ transaction_history' =
                Logged(transaction_history, method_name, amount, out.log, clock)
          /\ call' = [op |-> "process_payment", amount |-> amount, result |-> out.result,
                      draw |-> out.draw, pre_history |-> transaction_history,
                      pre_balance |-> balance]
    /\ calls' = calls + 1
    /\ UNCHANGED <<kind, method_name, card_number, balance, clock>>

\* process_payment(amount) on a PayPal instance; the successful path sleeps,
\* so it is followed only while the clock stays within MaxTime
CallPayPal ==
    /\ kind = "PayPal"
    /\ calls < MaxCalls
    /\ \E amount \in Amounts :
          LET out == PayPal_process_payment(amount, balance) IN
          /\ clock + out.slept <= MaxTime
          /\ clock' = clock + out.slept
          /\ balance' = out.balance
          /\ transaction_history' =
                Logged(transaction_history, method_name, amount, out.log, clock')
          /\ call' = [op |-> "process_payment", amount |-> amount, result |-> out.result,
                      draw |-> 0, pre_history |-> transaction_history,
                      pre_balance |-> balance]
    /\ calls' = calls + 1
    /\ UNCHANGED <<kind, method_name, card_number>>

\* validate_card() on a CreditCard instance
CallValidateCard ==
    /\ kind = "CreditCard"
    /\ call' = [op |-> "validate_card", amount |-> NoFloat,
                result |-> Bool(validate_card(card_number)), draw |-> 0,
                pre_history |-> transaction_history, pre_balance |-> balance]
    /\ UNCHANGED <<kind, method_name, transaction_history, card_number, balance, clock, calls>>

Next == Tick \/ CallPaymentMethod \/ CallCreditCard \/ CallPayPal \/ CallValidateCard

Spec == Init /\ [][Next]_vars

\* validate_card over the wide set of card numbers
NextValidate == CallValidateCard \/ Tick

SpecValidate == InitValidate /\ [][NextValidate]_vars

(* ------------------------------ claims --------------------------------- *)

\* the last call was process_payment on an instance of class k
Paid(k) == kind = k /\ call.op = "process_payment"

\* the last call appended exactly one entry, of the given status
Appended(status) ==
    /\ Len(transaction_history) = Len(call.pre_history) + 1
    /\ transaction_history[Len(transaction_history)].status = status

\* the statuses of the history, in order
Statuses == [i \in DOMAIN transaction_history |-> transaction_history[i].status]

\* C1: for every amount <= 0, process_payment of CreditCard and of PayPal
\* returns false and appends a record of status "Failed", whatever the card
\* number or the balance.
C1_NonPositiveAmountFails ==
    ((Paid("CreditCard") \/ Paid("PayPal")) /\ FLe(call.amount, Fin(0)))
        => (call.result = "False" /\ Appended("Failed"))

\* C1 witness: a zero amount on a card whose number is invalid was logged "Failed"
C1_Witness ==
    /\ Paid("CreditCard")
    /\ card_number = ShortCard
    /\ call.amount = Fin(0)
    /\ call.result = "False"
    /\ Appended("Failed")

\* C2: PayPal.process_payment with 0 < amount <= balance returns true,
\* decrements the balance by exactly amount and appends a record of status
\* "Completed"; amount = balance = 500 leaves a balance of 0.
C2_SufficientFundsCompletes ==
    (Paid("PayPal") /\ FGt(call.amount, Fin(0)) /\ FLe(call.amount, call.pre_balance))
        => /\ call.result = "True"
           /\ Appended("Completed")
           /\ call.amount.k = "fin" /\ call.pre_balance.k = "fin"
           /\ balance = Fin(call.pre_balance.v - call.amount.v)
           /\ (call.amount = Fin(500) /\ call.pre_balance = Fin(500)) => balance = Fin(0)

\* C2 witness: the whole starting balance was paid in one call
C2_Witness ==
    /\ Paid("PayPal")
    /\ call.pre_balance = Fin(InitialBalance)
    /\ call.amount = Fin(InitialBalance)
    /\ call.result = "True"
    /\ balance = Fin(0)
    /\ Appended("Completed")

\* C3: PayPal.process_payment with amount > balance (amount > 0) returns
\* false, appends a record of status "Insufficient Funds" and leaves the
\* balance as it was.
C3_InsufficientFundsRejected ==
    (Paid("PayPal") /\ FGt(call.amount, Fin(0)) /\ FGt(call.amount, call.pre_balance))
        => /\ call.result = "False"
           /\ Appended("Insufficient Funds")
           /\ balance = call.pre_balance

\* C3 witness: after a payment, an amount above what is left was refused
C3_Witness ==
    /\ Paid("PayPal")
    /\ call.pre_balance = Fin(InitialBalance - AmountStep)
    /\ call.amount = Fin(InitialBalance)
    /\ call.result = "False"
    /\ Appended("Insufficient Funds")
    /\ balance = call.pre_balance

C5_HistoryAppendOnly ==
    /\ (Paid("CreditCard") \/ Paid("PayPal"))
        => /\ Len(transaction_history) = Len(call.pre_history) + 1
           /\ SubSeq(transaction_history, 1, Len(call.pre_history)) = call.pre_history
           /\ transaction_history[Len(transaction_history)].amount = call.amount
           /\ transaction_history[Len(transaction_history)].method = method_name
           /\ transaction_history[Len(transaction_history)].status \in
                 {"Failed", "Declined", "Insufficient Funds", "Approved", "Completed"}
    /\ kind \in {"CreditCard", "PayPal"} => Len(transaction_history) = calls

\* C5 witness: three calls of three different outcomes, logged in call order
C5_Witness ==
    /\ Paid("PayPal")
    /\ Statuses = <<"Failed", "Completed", "Insufficient Funds">>
    /\ [i \in DOMAIN transaction_history |-> transaction_history[i].amount]
          = <<Fin(0), Fin(InitialBalance), Fin(AmountStep)>>

\* C6: process_payment on the base PaymentMethod ends in NotImplementedError
\* for every amount and appends nothing; on the two variants it always returns
\* a boolean.
C6_BaseUnimplemented ==
    /\ Paid("PaymentMethod")
        => /\ call.result = "NotImplementedError"
           /\ transaction_history = call.pre_history
           /\ transaction_history = <<>>
    /\ (Paid("CreditCard") \/ Paid("PayPal")) => call.result \in {"True", "False"}

\* C6 witness: a second call on the base instance raised again, nothing logged
C6_Witness ==
    /\ Paid("PaymentMethod")
    /\ calls = 2
    /\ call.amount = Fin(AmountStep)
    /\ call.result = "NotImplementedError"
    /\ transaction_history = <<>>

\* C7: validate_card returns true if and only if the card number has length
\* 15 or 16 and every character is one of 0-9.
C7_ValidateIffAsciiDigits ==
    call.op = "validate_card"
        => (call.result = "True"
               <=> /\ Len(card_number) \in {15, 16}
                   /\ \A i \in 1..Len(card_number) : card_number[i] \in AsciiDigits)

\* C8: over any sequence of PayPal.process_payment calls the balance never
\* increases and never becomes negative; it changes only in a call that
\* returns true, then by exactly the amount, and a call returns true only
\* when the balance before it was at least the amount.
C8_BalanceOnlyDecreases ==
    Paid("PayPal")
        => /\ FLe(balance, call.pre_balance)
           /\ FLe(Fin(0), balance)
           /\ call.result = "False" => balance = call.pre_balance
           /\ call.result = "True"
                 => /\ FGe(call.pre_balance, call.amount)
                    /\ FEq(balance, FSub(call.pre_balance, call.amount))

\* C9: with a positive amount and a card number that validate_card accepts,
\* the outcome is one of four choices of which three are success; the call
\* returns true exactly when it logs "Approved" and false exactly when it
\* logs "Declined", and logs nothing else.
C9_RandomOutcomeLogged ==
    (Paid("CreditCard") /\ FGt(call.amount, Fin(0)) /\ validate_card(card_number))
        => /\ Len(Choices) = 4
           /\ Cardinality({i \in DOMAIN Choices : Choices[i]}) = 3
           /\ call.draw \in DOMAIN Choices
           /\ call.result = Bool(Choices[call.draw])
           /\ call.result = "True" => Appended("Approved")
           /\ call.result = "False" => Appended("Declined")

\* C9 witness: on one valid card a charge was approved and the next declined
C9_Witness ==
    /\ Paid("CreditCard")
    /\ card_number = Card16
    /\ Statuses = <<"Approved", "Declined">>
    /\ call.amount = Fin(AmountStep)
    /\ call.pre_history[1].amount = Fin(InitialBalance)
    /\ call.result = "False"
    /\ call.draw = 4

\* the float sum of the amounts of the "Completed" records of h
RECURSIVE SumCompleted(_)
SumCompleted(h) ==
    IF h = <<>> THEN Fin(0)
    ELSE LET n == Len(h)
             rest == SumCompleted(SubSeq(h, 1, n - 1))
         IN IF h[n].status = "Completed" THEN FAdd(rest, h[n].amount) ELSE rest

\* C10: after every PayPal.process_payment call the balance equals 500 minus
\* the sum of the amounts of the "Completed" records of the history, and a
\* record is "Completed" exactly when its call returned true.
C10_BalanceMatchesHistory ==
    Paid("PayPal")
        => /\ FEq(balance, FSub(Fin(500), SumCompleted(transaction_history)))
           /\ call.result = "True" <=> Appended("Completed")

====
